---- MODULE Spec2Model ----
(***************************************************************************)
(* Routing core of the gateway: the channel action dispatcher              *)
(* (src/src/channels/plugins/message-actions.ts) and the delivery target   *)
(* resolver (src/src/cron/isolated-agent/delivery-target.ts).              *)
(* With them: the query for the actions the plugins declare, the memory   *)
(* hooks (rolling-memory, smart-memory) and the QVeris search cache        *)
(* (src/unnamed/part_006).                                                 *)
(*                                                                         *)
(* Text that the code trims or parses (requesterSenderId, to, sessionKey)  *)
(* is a sequence of one-character strings; identifiers that are only       *)
(* compared (channel ids, action names, account ids, thread ids) are       *)
(* atomic strings.                                                         *)
(***************************************************************************)
EXTENDS Integers, Sequences, FiniteSets, TLC

VARIABLES
    plugins,      \* the loaded channel plugins, in registration order
    dpc,          \* position of the dispatch call: idle, gate, primary, fallback, done
    dctx,         \* the ChannelMessageActionContext of the call in progress
    didx,         \* index of the fallback loop over listChannelPlugins()
    lookups,      \* number of registry reads (getChannelPlugin / listChannelPlugins)
    consulted,    \* supportsAction calls made so far: <<plugin id, action>>
    invoked,      \* handleAction calls made so far: [plugin, ctx]
    outcome,      \* how the call ended: [kind, by, ctx]
    store,        \* the session store: session key -> SessionEntry
    bindings,     \* account bindings of the agent: channel -> list of account ids
    selection,    \* what the channel-selection collaborator answers for cfg
    rpc,          \* position of the resolution: idle, selecting, done, threw
    rin,          \* arguments of the resolution in progress
    rentry,       \* the session entry the resolution read (its snapshot)
    rnorm,        \* resolveOutboundTarget calls made so far
    rreads,       \* collaborators consulted so far: [store, selection, bindings]
    rout,         \* the DeliveryTarget returned
    calls,        \* concurrent resolutions: resolution -> its position and locals
    updates,      \* number of session store updates the caller has made
    listed,       \* the list that listChannelMessageActions returned
    sessions,     \* sessions.json and the transcripts, as rolling-memory reads them
    hookDays,     \* hookConfig.days of rolling-memory
    rollingFile,  \* memory/rolling-7d.md
    rollingEver,  \* every conversation item that a run has written to it
    importantFiles, \* the files under memory/important/
    hlast,        \* the latest hook handler run: [handler, type, action, timestamp, wrote]
    clock,        \* Date.now(), in milliseconds
    ticks,        \* number of times the clock was advanced
    cache,        \* the search cache: key -> entry
    scalls,       \* executions of the search tool: execution -> its position
    sresult       \* the latest result that the search tool returned

dvars == <<plugins, dpc, dctx, didx, lookups, consulted, invoked, outcome>>

evars == <<store, bindings, selection>>

rvars == <<rpc, rin, rentry, rnorm, rreads, rout>>

cvars == <<calls, updates>>

lvars == <<listed>>

hvars == <<sessions, hookDays, rollingFile, rollingEver, importantFiles, hlast>>

qvars == <<clock, ticks, cache, scalls, sresult>>

vars == <<dvars, evars, rvars, cvars, lvars, hvars, qvars>>

----------------------------------------------------------------------------
(* JavaScript text helpers *)

\* undefined, for a text value
NoText == <<"undefined">>

\* undefined, for an identifier
UNDEFINED == "undefined"

IsSpace(ch) == ch = " "

RECURSIVE TrimStart(_)
TrimStart(s) ==
    IF s = <<>> THEN <<>>
    ELSE IF IsSpace(Head(s)) THEN TrimStart(Tail(s)) ELSE s

RECURSIVE TrimEnd(_)
TrimEnd(s) ==
    IF s = <<>> THEN <<>>
    ELSE IF IsSpace(s[Len(s)]) THEN TrimEnd(SubSeq(s, 1, Len(s) - 1)) ELSE s

\* String.prototype.trim
Trim(s) == TrimEnd(TrimStart(s))

----------------------------------------------------------------------------
(* Channel action dispatcher *)

\* bounds of the dispatcher model
MaxPlugins == 2

ChannelIds == {"discord", "feishu", "x"}

ModerationActions == {"timeout", "kick", "ban"}

ActionNames == ModerationActions \cup {"ping"}

SenderIds == {NoText, <<>>, <<" ">>, <<"u", "1">>}

\* a plugin's actions adapter: handle = it declares handleAction,
\* hasSupports = it declares supportsAction, accepts = the actions for which
\* supportsAction returns true
PluginShapes ==
    {[handle |-> h, hasSupports |-> s, accepts |-> a] :
        h \in BOOLEAN, s \in BOOLEAN, a \in {{}, ModerationActions, {"ping"}}}

Plugin(id, shape) ==
    [id |-> id, handle |-> shape.handle, hasSupports |-> shape.hasSupports,
     accepts |-> shape.accepts]

NoPlugin == [id |-> UNDEFINED, handle |-> FALSE, hasSupports |-> FALSE, accepts |-> {}]

\* registries: sequences of plugins with distinct ids
Registries ==
    UNION {
        {r \in [1..n -> {Plugin(i, sh) : i \in ChannelIds,
                          sh \in {q \in PluginShapes : q.hasSupports \/ q.accepts = {}}}] :
            \A i, j \in 1..n : i # j => r[i].id # r[j].id}
        : n \in 0..MaxPlugins}

Contexts ==
    [channel : ChannelIds, action : ActionNames, toolContext : BOOLEAN,
     requesterSenderId : SenderIds]

NoContext ==
    [channel |-> UNDEFINED, action |-> UNDEFINED, toolContext |-> FALSE,
     requesterSenderId |-> NoText]

NoOutcome == [kind |-> "none", by |-> UNDEFINED, ctx |-> NoContext]

\* trustedRequesterRequiredByChannel[channel], {} when the channel has no entry
trustedRequesterRequiredByChannel(channel) ==
    IF channel = "discord" THEN {"timeout", "kick", "ban"} ELSE {}

requiresTrustedRequesterSender_ignoresToolContext(ctx) ==
    ctx.action \in trustedRequesterRequiredByChannel(ctx.channel)

requiresTrustedRequesterSender(ctx) ==
    ctx.action \in trustedRequesterRequiredByChannel(ctx.channel) /\ ctx.toolContext

BlankSender_noTrim(ctx) ==
    ctx.requesterSenderId = NoText \/ ctx.requesterSenderId = <<>>

\* !ctx.requesterSenderId?.trim()
BlankSender(ctx) ==
    ctx.requesterSenderId = NoText \/ Trim(ctx.requesterSenderId) = <<>>

\* listChannelPlugins()
listChannelPlugins == plugins

\* getChannelPlugin(id)
getChannelPlugin(id) ==
    IF \E i \in 1..Len(plugins) : plugins[i].id = id
    THEN plugins[CHOOSE i \in 1..Len(plugins) : plugins[i].id = id]
    ELSE NoPlugin

Supported_requiresDeclaredCheck(p, action) == p.hasSupports /\ action \in p.accepts

\* !actions.supportsAction || actions.supportsAction({ action })
Supported(p, action) == ~p.hasSupports \/ action \in p.accepts

\* the supportsAction calls that evaluating Supported(p, action) makes
SupportCalls(p, action) == IF p.hasSupports THEN <<<<p.id, action>>>> ELSE <<>>

CandidateCtx_keepsChannel(ctx, candidate) == ctx

\* { ...ctx, channel: candidate.id }
CandidateCtx(ctx, candidate) == [ctx EXCEPT !.channel = candidate.id]

SkipCandidate_ignoresMissingHandler(candidate, ctx) == candidate.id = ctx.channel

\* candidate.id === ctx.channel, or !candidate.actions?.handleAction: continue
SkipCandidate(candidate, ctx) == candidate.id = ctx.channel \/ ~candidate.handle

\* a handler either returns a result or throws
HandlerOutcomes == {"result", "handler_error"}

Invoke_continuesOnThrow(p, ctx) ==
    /\ invoked' = Append(invoked, [plugin |-> p.id, ctx |-> ctx])
    /\ \E k \in HandlerOutcomes :
        /\ outcome' = [kind |-> k, by |-> p.id, ctx |-> ctx]
        /\ dpc' = IF k = "handler_error" THEN dpc ELSE "done"

\* return await <plugin>.actions.handleAction(<ctx>)
Invoke(p, ctx) ==
    /\ invoked' = Append(invoked, [plugin |-> p.id, ctx |-> ctx])
    /\ \E k \in HandlerOutcomes : outcome' = [kind |-> k, by |-> p.id, ctx |-> ctx]
    /\ dpc' = "done"

DispatchCall ==
    /\ dpc = "idle"
    /\ \E ctx \in Contexts : dctx' = ctx
    /\ dpc' = "gate"
    /\ didx' = 0
    /\ lookups' = 0
    /\ consulted' = <<>>
    /\ invoked' = <<>>
    /\ outcome' = NoOutcome
    /\ UNCHANGED <<plugins, evars, rvars, cvars, lvars, hvars, qvars>>

\* the authorization gate: throws, or lets the call go on
Gate ==
    /\ dpc = "gate"
    /\ IF requiresTrustedRequesterSender(dctx) /\ BlankSender(dctx)
       THEN /\ outcome' = [kind |-> "auth_error", by |-> UNDEFINED, ctx |-> dctx]
            /\ dpc' = "done"
       ELSE /\ dpc' = "primary"
            /\ UNCHANGED outcome
    /\ UNCHANGED <<plugins, dctx, didx, lookups, consulted, invoked, evars, rvars, cvars, lvars, hvars, qvars>>

\* primary dispatch: the plugin registered for ctx.channel
Primary ==
    /\ dpc = "primary"
    /\ lookups' = lookups + 1
    /\ LET plugin == getChannelPlugin(dctx.channel) IN
        IF plugin.handle
        THEN /\ consulted' = consulted \o SupportCalls(plugin, dctx.action)
             /\ IF Supported(plugin, dctx.action)
                THEN /\ Invoke(plugin, dctx)
                     /\ UNCHANGED didx
                ELSE /\ dpc' = "fallback"
                     /\ didx' = 1
                     /\ UNCHANGED <<invoked, outcome>>
        ELSE /\ dpc' = "fallback"
             /\ didx' = 1
             /\ UNCHANGED <<consulted, invoked, outcome>>
    /\ UNCHANGED <<plugins, dctx, evars, rvars, cvars, lvars, hvars, qvars>>

\* one iteration of the cross-channel fallback loop, or its end
Fallback ==
    /\ dpc = "fallback"
    /\ lookups' = IF didx = 1 THEN lookups + 1 ELSE lookups
    /\ IF didx > Len(listChannelPlugins)
       THEN /\ outcome' = [kind |-> "null", by |-> UNDEFINED, ctx |-> dctx]
            /\ dpc' = "done"
            /\ UNCHANGED <<didx, consulted, invoked>>
       ELSE LET candidate == listChannelPlugins[didx] IN
            IF SkipCandidate(candidate, dctx)
            THEN /\ didx' = didx + 1
                 /\ UNCHANGED <<dpc, consulted, invoked, outcome>>
            ELSE /\ consulted' = consulted \o SupportCalls(candidate, dctx.action)
                 /\ IF ~Supported(candidate, dctx.action)
                    THEN /\ didx' = didx + 1
                         /\ UNCHANGED <<dpc, invoked, outcome>>
                    ELSE /\ Invoke(candidate, CandidateCtx(dctx, candidate))
                         /\ UNCHANGED didx
    /\ UNCHANGED <<plugins, dctx, evars, rvars, cvars, lvars, hvars, qvars>>

\* the caller has the result; the dispatcher is free for the next call
DispatchReturn ==
    /\ dpc = "done"
    /\ dpc' = "idle"
    /\ dctx' = NoContext
    /\ didx' = 0
    /\ lookups' = 0
    /\ consulted' = <<>>
    /\ invoked' = <<>>
    /\ outcome' = NoOutcome
    /\ UNCHANGED <<plugins, evars, rvars, cvars, lvars, hvars, qvars>>

----------------------------------------------------------------------------
(* Delivery target resolver *)

DeliveryChannels == {"telegram", "discord", "feishu", "whatsapp"}

\* DEFAULT_CHAT_CHANNEL
DEFAULT_CHAT_CHANNEL == "whatsapp"

\* a text value is set and not the empty string
Truthy(text) == text # NoText /\ text # <<>>

Chars(text) == {text[i] : i \in 1..Len(text)}

\* jobPayload
PayloadChannels == {UNDEFINED, "last", "telegram", "discord"}

PayloadTos == {NoText, <<" ">>, <<" ", "a">>, <<"b", ":topic:", "7">>}

MainSessionKey == <<"m">>

ThreadSessionKey == <<"t">>

PayloadSessionKeys == {NoText, <<" ">>, <<" ", "t">>}

Payloads == [channel : PayloadChannels, to : PayloadTos, sessionKey : PayloadSessionKeys]

\* options.origin
NoOrigin ==
    [present |-> FALSE, channel |-> UNDEFINED, to |-> NoText, accountId |-> UNDEFINED,
     threadId |-> UNDEFINED]

Origins ==
    {NoOrigin} \cup
    {[present |-> TRUE, channel |-> c, to |-> t, accountId |-> at[1], threadId |-> at[2]] :
        c \in {UNDEFINED, "telegram", "discord"},
        t \in {NoText, <<"A">>, <<"!">>},
        at \in {<<UNDEFINED, UNDEFINED>>, <<"acctO", "tO">>}}

DeliveryModes == {UNDEFINED, "origin", "current"}

ResolveInputs == [payload : Payloads, origin : Origins, deliveryMode : DeliveryModes]

NoInputs ==
    [payload |-> [channel |-> UNDEFINED, to |-> NoText, sessionKey |-> NoText],
     origin |-> NoOrigin, deliveryMode |-> UNDEFINED]

\* SessionEntry, as far as delivery reads it
NoEntry ==
    [present |-> FALSE, lastChannel |-> UNDEFINED, lastTo |-> NoText,
     lastAccountId |-> UNDEFINED, lastThreadId |-> UNDEFINED]

MainEntries ==
    {NoEntry} \cup
    {[present |-> TRUE, lastChannel |-> c, lastTo |-> t, lastAccountId |-> at[1],
      lastThreadId |-> at[2]] :
        c \in {UNDEFINED, "telegram", "feishu"},
        t \in {NoText, <<"a">>},
        at \in {<<UNDEFINED, UNDEFINED>>, <<UNDEFINED, "t9">>, <<"acctS", "t9">>}}

ThreadEntries ==
    {NoEntry,
     [present |-> TRUE, lastChannel |-> "telegram", lastTo |-> <<"b">>,
      lastAccountId |-> "acctT", lastThreadId |-> "t7"]}

Stores ==
    {[k \in {MainSessionKey, ThreadSessionKey} |->
        IF k = MainSessionKey THEN m ELSE t] : m \in MainEntries, t \in ThreadEntries}

\* store[key]
StoreGet(st, key) ==
    IF key \in DOMAIN st /\ st[key].present THEN st[key] ELSE NoEntry

\* buildChannelAccountBindings(cfg).get(channel)?.get(normalizeAgentId(agentId))
BindingTables ==
    {[c \in DeliveryChannels |-> <<>>],
     [c \in DeliveryChannels |-> IF c \in {"telegram", "discord"} THEN <<"acctB", "acctB2">> ELSE <<>>]}

\* resolveMessageChannelSelection({ cfg }): a channel, or it throws
Selections == {[ok |-> TRUE, channel |-> "discord"], [ok |-> FALSE, channel |-> UNDEFINED]}

NoError == [channel |-> UNDEFINED, to |-> NoText]

\* canonical spelling of a recipient's characters
FoldChar(ch) == IF ch = "A" THEN "a" ELSE ch

Canonical(text) == [i \in 1..Len(text) |-> FoldChar(text[i])]

\* resolveOutboundTarget({ channel, to, cfg, accountId, mode })
resolveOutboundTarget(channel, to, accountId, mode) ==
    LET t == Trim(to) IN
    IF \/ t = <<>>
       \/ "!" \in Chars(t)
       \/ (":topic:" \in Chars(t) /\ channel # "telegram")
    THEN [ok |-> FALSE, to |-> NoText, error |-> [channel |-> channel, to |-> to]]
    ELSE [ok |-> TRUE, to |-> Canonical(t), error |-> NoError]

\* parseTelegramTarget: "<chat>:topic:<thread>"
HasTopic(text) == \E i \in 1..Len(text) : text[i] = ":topic:" /\ i < Len(text)

TopicIndex(text) == CHOOSE i \in 1..Len(text) : text[i] = ":topic:" /\ i < Len(text)

TopicChat(text) == SubSeq(text, 1, TopicIndex(text) - 1)

TopicThread(text) == text[TopicIndex(text) + 1]

NoTarget ==
    [channel |-> UNDEFINED, to |-> NoText, accountId |-> UNDEFINED, threadId |-> UNDEFINED,
     threadIdExplicit |-> FALSE, mode |-> UNDEFINED, lastChannel |-> UNDEFINED,
     lastTo |-> NoText, lastAccountId |-> UNDEFINED, lastThreadId |-> UNDEFINED]

\* resolveSessionDeliveryTarget({ entry, requestedChannel, explicitTo,
\*   fallbackChannel, allowMismatchedLastTo, mode })
resolveSessionDeliveryTarget(entry, requestedChannel, explicitTo, fallbackChannel, allowMismatched, mode) ==
    LET lastChannel == entry.lastChannel
        lastTo == entry.lastTo
        requested == IF requestedChannel = "last" THEN lastChannel ELSE requestedChannel
        channel == IF requested = UNDEFINED THEN fallbackChannel ELSE requested
        rawExplicitTo ==
            IF explicitTo # NoText /\ Trim(explicitTo) # <<>> THEN Trim(explicitTo) ELSE NoText
        parsed == channel = "telegram" /\ rawExplicitTo # NoText /\ HasTopic(rawExplicitTo)
        explicit == IF parsed THEN TopicChat(rawExplicitTo) ELSE rawExplicitTo
        explicitThreadId == IF parsed THEN TopicThread(rawExplicitTo) ELSE UNDEFINED
        sameChannel == channel # UNDEFINED /\ channel = lastChannel
        to == IF Truthy(explicit) THEN explicit
              ELSE IF Truthy(lastTo) /\ (sameChannel \/ allowMismatched) THEN lastTo
              ELSE NoText
        sessionThreadId == IF sameChannel THEN entry.lastThreadId ELSE UNDEFINED
        threadId == IF explicitThreadId # UNDEFINED THEN explicitThreadId ELSE sessionThreadId
    IN  [channel |-> channel,
         to |-> to,
         accountId |-> IF sameChannel THEN entry.lastAccountId ELSE UNDEFINED,
         threadId |-> threadId,
         threadIdExplicit |-> threadId # UNDEFINED /\ explicitThreadId # UNDEFINED,
         mode |-> IF mode # UNDEFINED THEN mode
                  ELSE IF Truthy(explicit) THEN "explicit" ELSE "implicit",
         lastChannel |-> lastChannel,
         lastTo |-> lastTo,
         lastAccountId |-> entry.lastAccountId,
         lastThreadId |-> entry.lastThreadId]

deliveryModeOf_defaultsToCurrent(in) ==
    IF in.deliveryMode = UNDEFINED THEN "current" ELSE in.deliveryMode

deliveryModeOf_ignoresOption(in) == "origin"

\* options?.deliveryMode ?? "origin"
deliveryModeOf(in) == IF in.deliveryMode = UNDEFINED THEN "origin" ELSE in.deliveryMode

\* typeof jobPayload.channel === "string" && jobPayload.channel !== "last"
hasExplicitChannel(in) == in.payload.channel # UNDEFINED /\ in.payload.channel # "last"

\* typeof jobPayload.to === "string" && jobPayload.to.trim() !== ""
hasExplicitTo(in) == in.payload.to # NoText /\ Trim(in.payload.to) # <<>>

useOrigin_ignoresExplicitTo(in) ==
    /\ deliveryModeOf(in) = "origin"
    /\ in.origin.present
    /\ ~hasExplicitChannel(in)
    /\ (in.origin.channel # UNDEFINED \/ Truthy(in.origin.to))

useOrigin(in) ==
    /\ deliveryModeOf(in) = "origin"
    /\ in.origin.present
    /\ ~hasExplicitChannel(in)
    /\ ~hasExplicitTo(in)
    /\ (in.origin.channel # UNDEFINED \/ Truthy(in.origin.to))

ShortCircuit_toOnly(in) == useOrigin(in) /\ Truthy(in.origin.to)

\* useOrigin && origin.channel && origin.to
ShortCircuit(in) == useOrigin(in) /\ in.origin.channel # UNDEFINED /\ Truthy(in.origin.to)

requestedChannelOf(in) ==
    IF hasExplicitChannel(in) THEN in.payload.channel
    ELSE IF useOrigin(in) /\ in.origin.channel # UNDEFINED THEN in.origin.channel
    ELSE "last"

explicitToOf_payloadOnly(in) == IF hasExplicitTo(in) THEN in.payload.to ELSE NoText

explicitToOf(in) ==
    IF hasExplicitTo(in) THEN in.payload.to
    ELSE IF useOrigin(in) /\ Truthy(in.origin.to) THEN in.origin.to
    ELSE NoText

allowMismatchedLastTo_always(in) == TRUE

\* requestedChannel === "last"
allowMismatchedLastTo(in) == requestedChannelOf(in) = "last"

LookupEntry_noTrim(st, in) ==
    LET threadEntry ==
            IF Truthy(in.payload.sessionKey) THEN StoreGet(st, in.payload.sessionKey)
            ELSE NoEntry
    IN  IF threadEntry.present THEN threadEntry ELSE StoreGet(st, MainSessionKey)

\* threadEntry ?? store[mainSessionKey]
LookupEntry(st, in) ==
    LET threadSessionKey ==
            IF in.payload.sessionKey = NoText THEN NoText ELSE Trim(in.payload.sessionKey)
        threadEntry == IF Truthy(threadSessionKey) THEN StoreGet(st, threadSessionKey) ELSE NoEntry
    IN  IF threadEntry.present THEN threadEntry ELSE StoreGet(st, MainSessionKey)

preliminaryOf(in, entry) ==
    resolveSessionDeliveryTarget(entry, requestedChannelOf(in), explicitToOf(in), UNDEFINED,
                                 allowMismatchedLastTo(in), UNDEFINED)

DockedTo_returnsCandidate(docked, toCandidate) == toCandidate

\* to: docked.ok ? docked.to : undefined
DockedTo(docked, toCandidate) == IF docked.ok THEN docked.to ELSE NoText

DockedError_dropped(docked) == NoError

\* error: docked.ok ? undefined : docked.error
DockedError(docked) == IF docked.ok THEN NoError ELSE docked.error

NormCall(channel, to, accountId, mode) ==
    [channel |-> channel, to |-> to, accountId |-> accountId, mode |-> mode,
     result |-> resolveOutboundTarget(channel, to, accountId, mode)]

NoResult ==
    [channel |-> UNDEFINED, to |-> NoText, accountId |-> UNDEFINED, threadId |-> UNDEFINED,
     mode |-> UNDEFINED, error |-> NoError]

\* the origin short-circuit: the returned target and the normalizer call made
OriginResult(in) ==
    LET call == NormCall(in.origin.channel, in.origin.to, in.origin.accountId, "explicit") IN
    [out |-> [channel |-> in.origin.channel,
              to |-> DockedTo(call.result, in.origin.to),
              accountId |-> in.origin.accountId,
              threadId |-> in.origin.threadId,
              mode |-> "explicit",
              error |-> DockedError(call.result)],
     norm |-> <<call>>,
     bindingsRead |-> 0]

CarriedThreadId_always(resolved) == resolved.threadId

CarriedThreadId_explicitOnly(resolved) ==
    IF resolved.threadId # UNDEFINED /\ resolved.threadIdExplicit THEN resolved.threadId
    ELSE UNDEFINED

\* resolved.threadId && (resolved.threadIdExplicit ||
\*   (resolved.to && resolved.to === resolved.lastTo)) ? resolved.threadId : undefined
CarriedThreadId(resolved) ==
    IF /\ resolved.threadId # UNDEFINED
       /\ (resolved.threadIdExplicit \/ (Truthy(resolved.to) /\ resolved.to = resolved.lastTo))
    THEN resolved.threadId
    ELSE UNDEFINED

ResolvedAccount_originFirst(in, resolved) ==
    IF useOrigin(in) /\ in.origin.accountId # UNDEFINED THEN in.origin.accountId
    ELSE resolved.accountId

\* let accountId = resolved.accountId (the origin override is commented out)
ResolvedAccount(in, resolved) == resolved.accountId

HasCandidate_always(toCandidate) == TRUE

\* if (!toCandidate) return { channel, to: undefined, accountId, threadId, mode }
HasCandidate(toCandidate) == Truthy(toCandidate)

BoundAccount_overrides(accountId, boundAccounts) ==
    IF Len(boundAccounts) > 0 THEN boundAccounts[1] ELSE accountId

\* let accountId = resolved.accountId;
\* if (!accountId && channel) { ... if (boundAccounts.length > 0) accountId = boundAccounts[0] }
BoundAccount(accountId, boundAccounts) ==
    IF accountId = UNDEFINED /\ Len(boundAccounts) > 0 THEN boundAccounts[1] ELSE accountId

\* the session path from the fallback channel on: the returned target, the
\* normalizer calls made and whether the bindings were read
SessionResult(in, entry, preliminary, fallbackChannel, binds) ==
    LET resolved ==
            IF fallbackChannel # UNDEFINED
            THEN resolveSessionDeliveryTarget(entry, requestedChannelOf(in), explicitToOf(in),
                                              fallbackChannel, allowMismatchedLastTo(in),
                                              preliminary.mode)
            ELSE preliminary
        channel ==
            IF resolved.channel # UNDEFINED THEN resolved.channel
            ELSE IF fallbackChannel # UNDEFINED THEN fallbackChannel
            ELSE DEFAULT_CHAT_CHANNEL
        mode == resolved.mode
        toCandidate == resolved.to
        readBindings == ResolvedAccount(in, resolved) = UNDEFINED
        accountId == BoundAccount(ResolvedAccount(in, resolved), binds[channel])
        threadId == CarriedThreadId(resolved)
        call == NormCall(channel, toCandidate, accountId, mode)
    IN  IF ~HasCandidate(toCandidate)
        THEN [out |-> [channel |-> channel, to |-> NoText, accountId |-> accountId,
                       threadId |-> threadId, mode |-> mode, error |-> NoError],
              norm |-> <<>>,
              bindingsRead |-> IF readBindings THEN 1 ELSE 0]
        ELSE [out |-> [channel |-> channel,
                       to |-> DockedTo(call.result, toCandidate),
                       accountId |-> accountId,
                       threadId |-> threadId,
                       mode |-> mode,
                       error |-> DockedError(call.result)],
              norm |-> <<call>>,
              bindingsRead |-> IF readBindings THEN 1 ELSE 0]

NoReads == [store |-> 0, selection |-> 0, bindings |-> 0]

\* the position and the locals of a resolution that has not been called
NoLocals == [pc |-> "idle", entry |-> NoEntry, norm |-> <<>>, reads |-> NoReads, out |-> NoResult]

\* resolveDeliveryTarget, from the call to its return or to the await of
\* resolveMessageChannelSelection: the position reached and the locals
Started(in, st, binds) ==
    IF ShortCircuit(in)
    THEN LET r == OriginResult(in) IN
         [pc |-> "done", entry |-> NoEntry, norm |-> r.norm, reads |-> NoReads, out |-> r.out]
    ELSE LET entry == LookupEntry(st, in)
             preliminary == preliminaryOf(in, entry)
             originChannel == useOrigin(in) /\ in.origin.channel # UNDEFINED
         IN  IF preliminary.channel = UNDEFINED /\ ~originChannel
             THEN [pc |-> "selecting", entry |-> entry, norm |-> <<>>,
                   reads |-> [store |-> 1, selection |-> 1, bindings |-> 0], out |-> NoResult]
             ELSE LET r == SessionResult(in, entry, preliminary,
                              IF preliminary.channel = UNDEFINED
                              THEN in.origin.channel ELSE UNDEFINED, binds)
                  IN  [pc |-> "done", entry |-> entry, norm |-> r.norm,
                       reads |-> [store |-> 1, selection |-> 0, bindings |-> r.bindingsRead],
                       out |-> r.out]

\* catch { fallbackChannel = preliminary.lastChannel ?? DEFAULT_CHAT_CHANNEL }
SelectionFailedChannel(preliminary) ==
    IF preliminary.lastChannel # UNDEFINED THEN preliminary.lastChannel
    ELSE DEFAULT_CHAT_CHANNEL

TrySelection_ignoresSelection(sel, preliminary) ==
    [threw |-> FALSE, channel |-> SelectionFailedChannel(preliminary)]

TrySelection_noCatch(sel, preliminary) ==
    IF sel.ok THEN [threw |-> FALSE, channel |-> sel.channel]
    ELSE [threw |-> TRUE, channel |-> UNDEFINED]

\* try { fallbackChannel = (await resolveMessageChannelSelection({ cfg })).channel }
\* catch { ... }: the fallback channel, and whether the failure left the function
TrySelection(sel, preliminary) ==
    IF sel.ok THEN [threw |-> FALSE, channel |-> sel.channel]
    ELSE [threw |-> FALSE, channel |-> SelectionFailedChannel(preliminary)]

EntryAfterAwait_rereads(snapshot, st, in) == LookupEntry(st, in)

\* `main` is a const bound before the await; after it the same value is used
EntryAfterAwait(snapshot, st, in) == snapshot

\* resolveDeliveryTarget, from the settling of the channel selection to its
\* return: the position reached and the locals
Settled(in, snapshot, st, sel, binds) ==
    LET preliminary == preliminaryOf(in, snapshot)
        tried == TrySelection(sel, preliminary)
    IN  IF tried.threw
        THEN [pc |-> "threw", entry |-> snapshot, norm |-> <<>>,
              reads |-> [store |-> 1, selection |-> 1, bindings |-> 0], out |-> NoResult]
        ELSE LET r == SessionResult(in, EntryAfterAwait(snapshot, st, in), preliminary,
                                    tried.channel, binds)
             IN  [pc |-> "done", entry |-> snapshot, norm |-> r.norm,
                  reads |-> [store |-> 1, selection |-> 1, bindings |-> r.bindingsRead],
                  out |-> r.out]

StoreAfter_recordsTarget(st, out) ==
    IF out.to # NoText THEN [st EXCEPT ![MainSessionKey].lastTo = out.to] ELSE st

\* the session store after a step of the resolution: the function body has no
\* assignment to the store it loaded
StoreAfter(st, out) == st

ResolveCall ==
    /\ rpc = "idle"
    /\ \E in \in ResolveInputs :
       \E s \in {Started(in, store, bindings)} :
        /\ rin' = in
        /\ rpc' = s.pc
        /\ rentry' = s.entry
        /\ rnorm' = s.norm
        /\ rreads' = s.reads
        /\ rout' = s.out
        /\ store' = StoreAfter(store, s.out)
    /\ UNCHANGED <<dvars, bindings, selection, cvars, lvars, hvars, qvars>>

\* the channel selection settles with its channel or throws; the resolution
\* runs on to its return
SelectionReturns ==
    /\ rpc = "selecting"
    /\ \E s \in {Settled(rin, rentry, store, selection, bindings)} :
        /\ rpc' = s.pc
        /\ rnorm' = s.norm
        /\ rreads' = s.reads
        /\ rout' = s.out
        /\ store' = StoreAfter(store, s.out)
    /\ UNCHANGED <<dvars, bindings, selection, cvars, rin, rentry, lvars, hvars, qvars>>

\* the caller has the DeliveryTarget (or the rejection); the next resolution
\* can start
ResolveReturn ==
    /\ rpc \in {"done", "threw"}
    /\ rpc' = "idle"
    /\ rin' = NoInputs
    /\ rentry' = NoEntry
    /\ rnorm' = <<>>
    /\ rreads' = NoReads
    /\ rout' = NoResult
    /\ UNCHANGED <<dvars, evars, cvars, lvars, hvars, qvars>>

----------------------------------------------------------------------------
(* Resolutions running concurrently, against a store their caller updates *)

Resolutions == {"r1", "r2"}

\* calledAt, settledAt: the number of store updates made before the call and
\* before the channel selection settled
NoCall == [in |-> NoInputs, loc |-> NoLocals, calledAt |-> 0, settledAt |-> 0]

\* bound on the store updates the caller makes
MaxStoreUpdates == 2

PlainPayload(channel, sessionKey) == [channel |-> channel, to |-> NoText, sessionKey |-> sessionKey]

\* the calls made concurrently: "last" on the main session, the thread
\* session, an explicit channel, and an origin that short-circuits
ConcInputs ==
    {[payload |-> PlainPayload("last", NoText), origin |-> NoOrigin, deliveryMode |-> UNDEFINED],
     [payload |-> PlainPayload(UNDEFINED, <<" ", "t">>), origin |-> NoOrigin,
      deliveryMode |-> "current"],
     [payload |-> PlainPayload("telegram", NoText), origin |-> NoOrigin,
      deliveryMode |-> UNDEFINED],
     [payload |-> PlainPayload(UNDEFINED, NoText),
      origin |-> [present |-> TRUE, channel |-> "telegram", to |-> <<"A">>,
                  accountId |-> "acctO", threadId |-> "tO"],
      deliveryMode |-> "origin"]}

\* the stores the caller moves between: the main entry gains and changes its
\* last* fields, the thread entry appears
ConcStores ==
    {st \in Stores :
        st[MainSessionKey] \in
            {NoEntry,
             [present |-> TRUE, lastChannel |-> UNDEFINED, lastTo |-> <<"a">>,
              lastAccountId |-> UNDEFINED, lastThreadId |-> UNDEFINED],
             [present |-> TRUE, lastChannel |-> "telegram", lastTo |-> <<"a">>,
              lastAccountId |-> "acctS", lastThreadId |-> "t9"],
             [present |-> TRUE, lastChannel |-> "feishu", lastTo |-> <<"a">>,
              lastAccountId |-> UNDEFINED, lastThreadId |-> "t9"]}}

\* resolution r is called
ConcCall(r) ==
    /\ calls[r].loc.pc = "idle"
    /\ \E in \in ConcInputs :
       \E s \in {Started(in, store, bindings)} :
        /\ calls' = [calls EXCEPT ![r] = [in |-> in, loc |-> s, calledAt |-> updates,
                                          settledAt |-> updates]]
        /\ store' = StoreAfter(store, s.out)
    /\ UNCHANGED <<dvars, bindings, selection, rvars, updates, lvars, hvars, qvars>>

\* the channel selection that resolution r awaits settles
ConcSelectionReturns(r) ==
    /\ calls[r].loc.pc = "selecting"
    /\ \E s \in {Settled(calls[r].in, calls[r].loc.entry, store, selection, bindings)} :
        /\ calls' = [calls EXCEPT ![r].loc = s, ![r].settledAt = updates]
        /\ store' = StoreAfter(store, s.out)
    /\ UNCHANGED <<dvars, bindings, selection, rvars, updates, lvars, hvars, qvars>>

\* the caller of resolution r has its result
ConcReturn(r) ==
    /\ calls[r].loc.pc \in {"done", "threw"}
    /\ calls' = [calls EXCEPT ![r] = NoCall]
    /\ UNCHANGED <<dvars, evars, rvars, updates, lvars, hvars, qvars>>

\* the caller records a delivery: the session store changes
CallerUpdatesStore ==
    /\ updates < MaxStoreUpdates
    /\ \E st \in ConcStores \ {store} : store' = st
    /\ updates' = updates + 1
    /\ UNCHANGED <<dvars, bindings, selection, rvars, calls, lvars, hvars, qvars>>

(* listChannelMessageActions: the actions the loaded plugins declare *)

\* what a plugin gives to the query: no listActions at all, a listActions
\* that returns nothing, or one that returns a list (repetitions allowed)
NoListActions == [declared |-> FALSE, returns |-> FALSE, list |-> <<>>]

ListActionShapes ==
    {NoListActions, [declared |-> TRUE, returns |-> FALSE, list |-> <<>>]} \cup
    {[declared |-> TRUE, returns |-> TRUE, list |-> l] :
        l \in {<<>>, <<"send", "react">>, <<"react", "react", "poll">>}}

ListPlugin(id, la) == [id |-> id, listActions |-> la]

\* registries of plugins with distinct ids, as far as the query reads them
ListRegistries ==
    UNION {
        {r \in [1..n -> {ListPlugin(i, la) : i \in ChannelIds, la \in ListActionShapes}] :
            \A i, j \in 1..n : i # j => r[i].id # r[j].id}
        : n \in 0..MaxPlugins}

\* no query in progress: a result is never empty
NotListed == <<>>

AddAction_push(actions, action) == Append(actions, action)

\* actions.add(action): a Set keeps the first insertion of each value
AddAction(actions, action) ==
    IF \E i \in 1..Len(actions) : actions[i] = action THEN actions
    ELSE Append(actions, action)

\* for (const action of list) actions.add(action)
RECURSIVE AddActions(_, _)
AddActions(actions, list) ==
    IF list = <<>> THEN actions
    ELSE AddActions(AddAction(actions, Head(list)), Tail(list))

\* plugin.actions?.listActions?.({ cfg }); if (!list) continue
RECURSIVE AddPlugins(_, _)
AddPlugins(actions, ps) ==
    IF ps = <<>> THEN actions
    ELSE LET la == Head(ps).listActions
         IN  IF la.declared /\ la.returns
             THEN AddPlugins(AddActions(actions, la.list), Tail(ps))
             ELSE AddPlugins(actions, Tail(ps))

\* Array.from(new Set(["send", "broadcast"]) filled from the plugins)
listChannelMessageActions == AddPlugins(AddActions(<<>>, <<"send", "broadcast">>), listChannelPlugins)

ListActionsCall ==
    /\ listed = NotListed
    /\ listed' = listChannelMessageActions
    /\ UNCHANGED <<dvars, evars, rvars, cvars, hvars, qvars>>

\* the caller has the list
ListActionsReturn ==
    /\ listed # NotListed
    /\ listed' = NotListed
    /\ UNCHANGED <<dvars, evars, rvars, cvars, hvars, qvars>>

----------------------------------------------------------------------------
(* Memory hooks: rolling-memory and smart-memory.  Timestamps are in whole *)
(* days, so a timestamp is also its date; 0 stands for a missing one.      *)

DEFAULT_ROLLING_DAYS == 7

HookEventTypes == {"command", "session", "agent"}

HookEventActions == {"new", "end"}

EventDays == {10, 17}

\* what context.sessionEntry gives to smart-memory: no sessionFile, a
\* transcript without user or assistant text, one without keywords, one with
TranscriptKinds == {"none", "empty", "routine", "important"}

HookEvents ==
    [type : HookEventTypes, action : HookEventActions, timestamp : EventDays,
     transcript : TranscriptKinds]

NoHookEvent == [type |-> UNDEFINED, action |-> UNDEFINED, timestamp |-> 0, transcript |-> "none"]

\* a handler run, as the memory files show it: the handler, the event's type,
\* action and timestamp, and the file it wrote
HookRun(handler, e, wrote) ==
    [handler |-> handler, type |-> e.type, action |-> e.action, timestamp |-> e.timestamp,
     wrote |-> wrote]

NoHookRun == HookRun(UNDEFINED, NoHookEvent, "nothing")

\* hookConfig.days of rolling-memory: not set, or a number
HookDaysConfigs == {[set |-> FALSE, days |-> 0], [set |-> TRUE, days |-> 0], [set |-> TRUE, days |-> 2]}

SessionKeys == {"s1", "s2"}

TranscriptLine(timestamp, text) == [timestamp |-> timestamp, text |-> text]

\* sessions.json with the transcripts: s1 with one message, dated or not,
\* in a session that may lack updatedAt; s2 with a command and a message,
\* its transcript file there or not
RollingStores ==
    {[k \in SessionKeys |->
        IF k = "s1"
        THEN [updatedAt |-> a[1], hasFile |-> TRUE, lines |-> <<TranscriptLine(a[2], "m1")>>]
        ELSE [updatedAt |-> b[1], hasFile |-> b[2],
              lines |-> <<TranscriptLine(0, "/x"), TranscriptLine(0, "m2")>>]] :
        a \in {<<0, 0>>, <<9, 0>>, <<9, 1>>},
        b \in {<<3, TRUE>>, <<16, TRUE>>, <<16, FALSE>>}}

NoRollingFile == [exists |-> FALSE, updated |-> 0, items |-> {}, none |-> FALSE]

\* if (!text || text.startsWith("/")) continue; the date is the entry's
\* timestamp when there is one, else the fallback date
parseTranscriptMessages(lines, fallbackDate) ==
    {[date |-> IF lines[i].timestamp # 0 THEN lines[i].timestamp ELSE fallbackDate,
      text |-> lines[i].text] :
        i \in {j \in 1..Len(lines) : lines[j].text \notin {"", "/x"}}}

\* the sessions whose transcript collectRecentMessages reads
KeptSessions(st, days, now) ==
    LET cutoff == now - days
    IN  {k \in SessionKeys :
            /\ ~(st[k].updatedAt = 0 \/ st[k].updatedAt < cutoff)
            /\ st[k].hasFile}

\* the messages of the kept sessions, each under its own date
collectRecentMessages(st, days, now) ==
    UNION {parseTranscriptMessages(st[k].lines, st[k].updatedAt) : k \in KeptSessions(st, days, now)}

buildRollingMarkdown(byDate, now) ==
    [exists |-> TRUE, updated |-> now, items |-> byDate, none |-> byDate = {}]

\* typeof hookConfig?.days === "number" && hookConfig.days > 0
rollingDays(cfg) == IF cfg.set /\ cfg.days > 0 THEN cfg.days ELSE DEFAULT_ROLLING_DAYS

rollingTriggers_anyCommand(e) == e.type = "command" \/ (e.type = "session" /\ e.action = "end")

\* isNew || isEnd
rollingTriggers(e) ==
    \/ (e.type = "command" /\ e.action = "new")
    \/ (e.type = "session" /\ e.action = "end")

WriteRolling_appends(old, new) == [new EXCEPT !.items = old.items \cup new.items]

\* fs.writeFile(rollingFile, markdown): the file is replaced
WriteRolling(old, new) == new

\* the rolling-memory handler, on one event
RollingMemoryRun ==
    /\ \E e \in HookEvents :
        IF rollingTriggers(e)
        THEN LET now == e.timestamp
                 byDate == collectRecentMessages(sessions, rollingDays(hookDays), now)
             IN  /\ rollingFile' = WriteRolling(rollingFile, buildRollingMarkdown(byDate, now))
                 /\ rollingEver' = rollingEver \cup byDate
                 /\ hlast' = HookRun("rolling-memory", e, "rolling-7d.md")
        ELSE /\ hlast' = HookRun("rolling-memory", e, "nothing")
             /\ UNCHANGED <<rollingFile, rollingEver>>
    /\ UNCHANGED <<dvars, evars, rvars, cvars, lvars, qvars, sessions, hookDays, importantFiles>>

\* getRecentSessionMessages: the user and assistant texts of the transcript
getRecentSessionMessages(e) ==
    IF e.transcript \in {"routine", "important"} THEN <<e.transcript>> ELSE <<>>

\* the first rule with enough keyword hits, else "routine"
classifyConversation(messages) ==
    IF \E i \in 1..Len(messages) : messages[i] = "important" THEN "remember" ELSE "routine"

smartTriggers(e) == e.type = "command" /\ e.action = "new"

\* the smart-memory handler, on one event
SmartMemoryRun ==
    /\ \E e \in HookEvents :
        IF /\ smartTriggers(e)
           /\ e.transcript # "none"
           /\ getRecentSessionMessages(e) # <<>>
           /\ classifyConversation(getRecentSessionMessages(e)) # "routine"
        THEN /\ importantFiles' = importantFiles \cup {[date |-> e.timestamp, slug |-> "conversation"]}
             /\ hlast' = HookRun("smart-memory", e, "important")
        ELSE /\ hlast' = HookRun("smart-memory", e, "nothing")
             /\ UNCHANGED importantFiles
    /\ UNCHANGED <<dvars, evars, rvars, cvars, lvars, qvars, sessions, hookDays, rollingFile, rollingEver>>

----------------------------------------------------------------------------
(* QVeris search tool: the short-TTL cache of one createQverisTools instance *)

DEFAULT_SEARCH_LIMIT == 10

DEFAULT_SEARCH_CACHE_TTL_MS == 90000

\* bound on the number of times the clock is advanced
MaxTicks == 2

ClockSteps == {1, DEFAULT_SEARCH_CACHE_TTL_MS}

\* executions of the search tool that may overlap at the awaited API call
Executions == {"e1", "e2"}

SearchArg(query, given, n) == [query |-> query, limit |-> [given |-> given, n |-> n]]

\* the arguments of the calls: limits below, within and above 1..100 for one
\* query, and a query with a colon in it under the default limit
SearchArgs ==
    {SearchArg(<<"a">>, TRUE, 0), SearchArg(<<"a">>, TRUE, 1), SearchArg(<<"a">>, TRUE, 250),
     SearchArg(<<"a", ":", "1">>, FALSE, 0)}

NoSearchArg == SearchArg(<<>>, FALSE, 0)

Min(a, b) == IF a < b THEN a ELSE b

Max(a, b) == IF a > b THEN a ELSE b

\* Math.min(Math.max(1, limit ?? searchLimit), 100)
normalizedLimitOf(arg) ==
    Min(Max(1, IF arg.limit.given THEN arg.limit.n ELSE DEFAULT_SEARCH_LIMIT), 100)

DigitChars == <<"0", "1", "2", "3", "4", "5", "6", "7", "8", "9">>

\* the decimal text of a positive integer
RECURSIVE ToDigits(_)
ToDigits(n) ==
    IF n < 10 THEN <<DigitChars[n + 1]>>
    ELSE ToDigits(n \div 10) \o <<DigitChars[(n % 10) + 1]>>

\* `${query}:${normalizedLimit}`
cacheKeyOf(query, limit) == query \o <<":">> \o ToDigits(limit)

CacheKeys == {cacheKeyOf(a.query, normalizedLimitOf(a)) : a \in SearchArgs}

NoPayload == [kind |-> "none", query |-> <<>>, limit |-> 0, at |-> 0]

NoCacheEntry == [present |-> FALSE, value |-> NoPayload, expiresAt |-> 0]

NoSearchResult == [kind |-> "none", arg |-> NoSearchArg, payload |-> NoPayload, at |-> 0]

SearchIdle == [pc |-> "idle", arg |-> NoSearchArg]

Expired_never(now, entry) == FALSE

\* Date.now() > entry.expiresAt
Expired(now, entry) == now > entry.expiresAt

\* searchCache.read(key): the value served, and the store afterwards
CacheRead(ch, key, now) ==
    IF ~ch[key].present THEN [value |-> NoPayload, store |-> ch]
    ELSE IF Expired(now, ch[key]) THEN [value |-> NoPayload, store |-> [ch EXCEPT ![key] = NoCacheEntry]]
    ELSE [value |-> ch[key].value, store |-> ch]

\* searchCache.write(key, value, ttlMs)
CacheWrite(ch, key, value, ttlMs, now) ==
    [ch EXCEPT ![key] = [present |-> TRUE, value |-> value, expiresAt |-> now + ttlMs]]

\* execute is called: the cache is read; a hit is returned marked cached,
\* a miss goes on to the awaited API search
SearchExecute(x) ==
    /\ scalls[x].pc = "idle"
    /\ \E arg \in SearchArgs :
       \E r \in {CacheRead(cache, cacheKeyOf(arg.query, normalizedLimitOf(arg)), clock)} :
        /\ cache' = r.store
        /\ IF r.value.kind # "none"
           THEN /\ sresult' = [kind |-> "cached", arg |-> arg, payload |-> r.value, at |-> clock]
                /\ UNCHANGED scalls
           ELSE /\ scalls' = [scalls EXCEPT ![x] = [pc |-> "awaiting", arg |-> arg]]
                /\ UNCHANGED sresult
    /\ UNCHANGED <<dvars, evars, rvars, cvars, lvars, hvars, clock, ticks>>

\* qverisSearch resolved: the payload is built, written to the cache and
\* returned
SearchSucceeds(x) ==
    /\ scalls[x].pc = "awaiting"
    /\ LET arg == scalls[x].arg
           limit == normalizedLimitOf(arg)
           payload == [kind |-> "payload", query |-> arg.query, limit |-> limit, at |-> clock]
       IN  /\ cache' = CacheWrite(cache, cacheKeyOf(arg.query, limit), payload,
                                  DEFAULT_SEARCH_CACHE_TTL_MS, clock)
           /\ sresult' = [kind |-> "fresh", arg |-> arg, payload |-> payload, at |-> clock]
    /\ scalls' = [scalls EXCEPT ![x] = SearchIdle]
    /\ UNCHANGED <<dvars, evars, rvars, cvars, lvars, hvars, clock, ticks>>

\* qverisSearch threw: the structured error is returned
SearchFails(x) ==
    /\ scalls[x].pc = "awaiting"
    /\ sresult' = [kind |-> "error", arg |-> scalls[x].arg, payload |-> NoPayload, at |-> clock]
    /\ scalls' = [scalls EXCEPT ![x] = SearchIdle]
    /\ UNCHANGED <<dvars, evars, rvars, cvars, lvars, hvars, clock, ticks, cache>>

\* time passes
ClockTick ==
    /\ ticks < MaxTicks
    /\ \E d \in ClockSteps : clock' = clock + d
    /\ ticks' = ticks + 1
    /\ UNCHANGED <<dvars, evars, rvars, cvars, lvars, hvars, cache, scalls, sresult>>

----------------------------------------------------------------------------
(* Initial states and specifications *)

ResolverIdle ==
    /\ rpc = "idle"
    /\ rin = NoInputs
    /\ rentry = NoEntry
    /\ rnorm = <<>>
    /\ rreads = NoReads
    /\ rout = NoResult
    /\ calls = [r \in Resolutions |-> NoCall]
    /\ updates = 0

DispatcherIdle ==
    /\ dpc = "idle"
    /\ dctx = NoContext
    /\ didx = 0
    /\ lookups = 0
    /\ consulted = <<>>
    /\ invoked = <<>>
    /\ outcome = NoOutcome

NoStore == [k \in {MainSessionKey, ThreadSessionKey} |-> NoEntry]

ListIdle == listed = NotListed

\* no sessions, no hook configuration, no memory file
HooksIdle ==
    /\ sessions = [k \in SessionKeys |-> [updatedAt |-> 0, hasFile |-> FALSE, lines |-> <<>>]]
    /\ hookDays = [set |-> FALSE, days |-> 0]
    /\ rollingFile = NoRollingFile
    /\ rollingEver = {}
    /\ importantFiles = {}
    /\ hlast = NoHookRun

\* a new createQverisTools instance: an empty cache, no execution
SearchToolIdle ==
    /\ clock = 0
    /\ ticks = 0
    /\ cache = [k \in CacheKeys |-> NoCacheEntry]
    /\ scalls = [x \in Executions |-> SearchIdle]
    /\ sresult = NoSearchResult

DispatchInit ==
    /\ plugins \in Registries
    /\ DispatcherIdle
    /\ store = NoStore
    /\ bindings = [c \in DeliveryChannels |-> <<>>]
    /\ selection = [ok |-> FALSE, channel |-> UNDEFINED]
    /\ ResolverIdle
    /\ ListIdle
    /\ HooksIdle
    /\ SearchToolIdle

DispatchNext ==
    \/ DispatchCall
    \/ Gate
    \/ Primary
    \/ Fallback
    \/ DispatchReturn

SpecDispatch == DispatchInit /\ [][DispatchNext]_vars

ResolveInit ==
    /\ plugins = <<>>
    /\ DispatcherIdle
    /\ store \in Stores
    /\ bindings \in BindingTables
    /\ selection \in Selections
    /\ ResolverIdle
    /\ ListIdle
    /\ HooksIdle
    /\ SearchToolIdle

ResolveNext ==
    \/ ResolveCall
    \/ SelectionReturns
    \/ ResolveReturn

SpecResolve == ResolveInit /\ [][ResolveNext]_vars

ConcInit ==
    /\ plugins = <<>>
    /\ DispatcherIdle
    /\ store \in ConcStores
    /\ bindings \in BindingTables
    /\ selection \in Selections
    /\ ResolverIdle
    /\ ListIdle
    /\ HooksIdle
    /\ SearchToolIdle

ConcNext ==
    \/ \E r \in Resolutions : ConcCall(r)
    \/ \E r \in Resolutions : ConcSelectionReturns(r)
    \/ \E r \in Resolutions : ConcReturn(r)
    \/ CallerUpdatesStore

SpecConcurrent == ConcInit /\ [][ConcNext]_vars

\* the dispatcher and the resolver at rest, with nothing stored
RoutingIdle ==
    /\ DispatcherIdle
    /\ store = NoStore
    /\ bindings = [c \in DeliveryChannels |-> <<>>]
    /\ selection = [ok |-> FALSE, channel |-> UNDEFINED]
    /\ ResolverIdle

ListInit ==
    /\ plugins \in ListRegistries
    /\ RoutingIdle
    /\ ListIdle
    /\ HooksIdle
    /\ SearchToolIdle

ListNext ==
    \/ ListActionsCall
    \/ ListActionsReturn

SpecList == ListInit /\ [][ListNext]_vars

HooksInit ==
    /\ plugins = <<>>
    /\ RoutingIdle
    /\ ListIdle
    /\ sessions \in RollingStores
    /\ hookDays \in HookDaysConfigs
    /\ rollingFile = NoRollingFile
    /\ rollingEver = {}
    /\ importantFiles = {}
    /\ hlast = NoHookRun
    /\ SearchToolIdle

HooksNext ==
    \/ RollingMemoryRun
    \/ SmartMemoryRun

SpecHooks == HooksInit /\ [][HooksNext]_vars

SearchInit ==
    /\ plugins = <<>>
    /\ RoutingIdle
    /\ ListIdle
    /\ HooksIdle
    /\ SearchToolIdle

SearchNext ==
    \/ \E x \in Executions : SearchExecute(x)
    \/ \E x \in Executions : SearchSucceeds(x)
    \/ \E x \in Executions : SearchFails(x)
    \/ ClockTick

SpecSearch == SearchInit /\ [][SearchNext]_vars

----------------------------------------------------------------------------
(* Properties of the dispatcher *)

\* the gate's case, stated on the call itself
GateCase(ctx) ==
    /\ ctx.channel = "discord"
    /\ ctx.action \in {"timeout", "kick", "ban"}
    /\ ctx.toolContext
    /\ (ctx.requesterSenderId = NoText \/ \A i \in 1..Len(ctx.requesterSenderId) :
            ctx.requesterSenderId[i] = " ")

BlankText(t) == t = NoText \/ \A i \in 1..Len(t) : t[i] = " "

\* the plugin can perform the action: it declares handleAction and its
\* supportsAction is absent or accepts the action
CanPerform(p, action) == p.handle /\ (~p.hasSupports \/ action \in p.accepts)

PrimaryCan(ctx) ==
    \E i \in 1..Len(plugins) : plugins[i].id = ctx.channel /\ CanPerform(plugins[i], ctx.action)

\* C1: in no dispatch is the discord plugin's handleAction invoked with a
\* moderation action, toolContext set and a blank requesterSenderId, whether
\* the handler is reached by primary dispatch or by cross-channel fallback.
C1_NoModerationWithoutIdentity ==
    \A i \in 1..Len(invoked) :
        ~ /\ invoked[i].plugin = "discord"
          /\ invoked[i].ctx.action \in {"timeout", "kick", "ban"}
          /\ invoked[i].ctx.toolContext
          /\ BlankText(invoked[i].ctx.requesterSenderId)

\* C4: a call for discord with a moderation action, toolContext set and a
\* blank requesterSenderId ends with the authorization error, and before that
\* no registry lookup, no supportsAction call and no handleAction call is made.
C4_AuthorizationGate ==
    (dpc # "idle" /\ GateCase(dctx)) =>
        /\ dpc \in {"gate", "done"}
        /\ lookups = 0
        /\ consulted = <<>>
        /\ invoked = <<>>
        /\ (dpc = "done" => outcome.kind = "auth_error")

C4_Witness ==
    /\ dpc = "done"
    /\ GateCase(dctx)
    /\ dctx.requesterSenderId = <<" ">>
    /\ outcome.kind = "auth_error"
    /\ \E i \in 1..Len(plugins) : plugins[i].id = "discord" /\ CanPerform(plugins[i], dctx.action)

\* C5: the authorization error is raised only when the channel/action pair
\* is in the trusted-requester table, toolContext is set and the sender is
\* blank; every other call goes on to primary dispatch.
C5_AuthorizationErrorOnlyUnderGate ==
    /\ (outcome.kind = "auth_error" => GateCase(outcome.ctx))
    /\ (dpc \notin {"idle", "gate"} /\ ~GateCase(dctx)) =>
            /\ outcome.kind # "auth_error"
            /\ (dpc = "primary" \/ lookups >= 1)

C5_Witness ==
    /\ dpc = "done"
    /\ dctx.channel = "discord"
    /\ dctx.action = "kick"
    /\ ~dctx.toolContext
    /\ dctx.requesterSenderId = <<>>
    /\ outcome.kind = "result"
    /\ outcome.by = "discord"

\* the other loaded plugins that C7 as written selects among: supportsAction
\* accepts the action or is absent
ClaimedCandidates(ctx) ==
    {i \in 1..Len(plugins) :
        /\ plugins[i].id # ctx.channel
        /\ (~plugins[i].hasSupports \/ ctx.action \in plugins[i].accepts)}

\* the other loaded plugins that can perform the action
AbleCandidates(ctx) ==
    {i \in 1..Len(plugins) :
        plugins[i].id # ctx.channel /\ CanPerform(plugins[i], ctx.action)}

First(S) == CHOOSE i \in S : \A j \in S : i <= j

DispatchedTo(p) ==
    /\ invoked = <<[plugin |-> p.id, ctx |-> [dctx EXCEPT !.channel = p.id]]>>
    /\ outcome.kind \in {"result", "handler_error"}
    /\ outcome.by = p.id
    /\ outcome.ctx = [dctx EXCEPT !.channel = p.id]

\* C7 as written: when the gate passes and the primary plugin cannot perform
\* the action, the action goes to the first other plugin, in registration
\* order, whose supportsAction accepts the action or is absent.
C7_AsWritten ==
    (dpc = "done" /\ outcome.kind # "auth_error" /\ ~PrimaryCan(dctx)
        /\ ClaimedCandidates(dctx) # {}) =>
            DispatchedTo(plugins[First(ClaimedCandidates(dctx))])

\* C7, amended: when the gate passes and the primary plugin cannot perform
\* the action, the action goes to the first other plugin, in registration
\* order, that declares handleAction and whose supportsAction accepts the
\* action or is absent; its handler gets the context with channel rewritten
\* to its id, its result is the call's result, and no other handler is invoked.
C7_CrossChannelFallback ==
    (dpc = "done" /\ outcome.kind # "auth_error" /\ ~PrimaryCan(dctx)
        /\ AbleCandidates(dctx) # {}) =>
            DispatchedTo(plugins[First(AbleCandidates(dctx))])

\* A cannot do the action, B can: B's result, with channel rewritten to B
C7_Witness ==
    /\ dpc = "done"
    /\ Len(plugins) = 2
    /\ plugins[1].id = dctx.channel
    /\ plugins[1].handle /\ plugins[1].hasSupports /\ dctx.action \notin plugins[1].accepts
    /\ plugins[2].hasSupports /\ dctx.action \in plugins[2].accepts
    /\ dctx.action = "ping"
    /\ outcome.kind = "result"
    /\ outcome.by = plugins[2].id
    /\ outcome.ctx.channel = plugins[2].id
    /\ Len(invoked) = 1

\* C8: when the gate passes and the plugin registered for ctx.channel can
\* perform the action, exactly that plugin's handler is invoked, with the
\* unchanged ctx, its result is the call's result, and no other plugin's
\* supportsAction or handleAction is called.
C8_PrimaryDispatch ==
    (dpc \in {"fallback", "done"} /\ outcome.kind # "auth_error" /\ PrimaryCan(dctx)) =>
        /\ dpc = "done"
        /\ invoked = <<[plugin |-> dctx.channel, ctx |-> dctx]>>
        /\ outcome.kind \in {"result", "handler_error"}
        /\ outcome.by = dctx.channel
        /\ outcome.ctx = dctx
        /\ \A i \in 1..Len(consulted) : consulted[i][1] = dctx.channel

C8_Witness ==
    /\ dpc = "done"
    /\ Len(plugins) = 2
    /\ plugins[2].id = dctx.channel
    /\ plugins[2].handle /\ ~plugins[2].hasSupports
    /\ CanPerform(plugins[1], dctx.action)
    /\ outcome.kind = "result"
    /\ outcome.by = dctx.channel
    /\ outcome.ctx = dctx

\* C9: the call returns null exactly when the gate passes and no loaded
\* plugin, primary or fallback, can perform the action; then no handler was
\* invoked.
C9_UnsupportedIsNull ==
    dpc = "done" =>
        /\ outcome.kind = "null" <=>
            /\ ~GateCase(dctx)
            /\ \A i \in 1..Len(plugins) : ~CanPerform(plugins[i], dctx.action)
        /\ outcome.kind = "null" => invoked = <<>>

C9_Witness ==
    /\ dpc = "done"
    /\ outcome.kind = "null"
    /\ Len(plugins) = 2
    /\ plugins[1].id = dctx.channel
    /\ ~plugins[1].handle
    /\ plugins[2].handle /\ plugins[2].hasSupports
    /\ consulted = <<<<plugins[2].id, dctx.action>>>>

\* C29: a call invokes at most one plugin's handleAction; the fallback loop
\* never invokes the plugin whose id is ctx.channel; an error thrown by the
\* invoked handler ends the call with that error and no further plugin is
\* tried.
C29_SingleInvocation ==
    /\ Len(invoked) <= 1
    /\ (didx >= 1 /\ invoked # <<>>) => invoked[1].plugin # dctx.channel
    /\ outcome.kind \in HandlerOutcomes =>
        /\ dpc = "done"
        /\ Len(invoked) = 1
        /\ outcome.by = invoked[1].plugin
    /\ invoked # <<>> => outcome.kind \in HandlerOutcomes

\* the first fallback candidate's handler threw; the second loaded plugin,
\* which could perform the action too, was not tried
C29_Witness ==
    /\ dpc = "done"
    /\ outcome.kind = "handler_error"
    /\ didx = 1
    /\ Len(plugins) = 2
    /\ invoked = <<[plugin |-> plugins[1].id, ctx |-> CandidateCtx(dctx, plugins[1])]>>
    /\ plugins[2].id # dctx.channel
    /\ plugins[2].handle
    /\ Supported(plugins[2], dctx.action)

----------------------------------------------------------------------------
(* Properties of the delivery target resolver *)

\* the recipient candidate handed to the normalizer, NoText when there was none
ResolvedTo == IF Len(rnorm) > 0 THEN rnorm[1].to ELSE NoText

\* the resolution took the session path (it read the session store)
SessionPath == rreads.store = 1

\* C2: a returned `to` is the value a successful resolveOutboundTarget call
\* returned for the result's channel, and is canonical for that channel; no
\* raw recipient is returned.
C2_ToIsNormalized ==
    (rpc = "done" /\ rout.to # NoText) =>
        /\ rout.to # <<>>
        /\ \E i \in 1..Len(rnorm) :
            /\ rnorm[i].channel = rout.channel
            /\ rnorm[i].result.ok
            /\ rnorm[i].result.to = rout.to
        /\ \A ch \in Chars(rout.to) : ch \notin {" ", "A", "!"}

\* a raw "A" given by a partial origin, on the path that awaits the channel
\* selection, is returned as "a"
C2_Witness ==
    /\ rpc = "done"
    /\ rreads.selection = 1
    /\ ResolvedTo = <<"A">>
    /\ rout.to = <<"a">>
    /\ rout.channel = "discord"

\* the payload's recipient text names a topic thread
PayloadNamesThread(in) ==
    /\ in.payload.to # NoText
    /\ \E i \in 1..Len(in.payload.to) : in.payload.to[i] = ":topic:"

\* C3 as written: in every resolution whose recipient differs from the
\* session entry's lastTo and for which no thread was explicitly supplied, the
\* result's threadId is undefined.
\* (The recipient differs from lastTo both as the candidate and as returned.)
C3_AsWritten ==
    (/\ rpc = "done"
     /\ ResolvedTo # LookupEntry(store, rin).lastTo
     /\ rout.to # LookupEntry(store, rin).lastTo
     /\ ~PayloadNamesThread(rin)) =>
        rout.threadId = UNDEFINED

\* C3, amended: on the session path a threadId is returned only if the
\* payload's recipient named it, or it is the entry's lastThreadId and the
\* recipient equals the entry's lastTo; on the origin short-circuit the
\* threadId is the origin's, whatever the session holds.
C3_NoThreadLeak ==
    rpc = "done" =>
        /\ (SessionPath /\ ResolvedTo # rentry.lastTo /\ ~PayloadNamesThread(rin)) =>
                rout.threadId = UNDEFINED
        /\ (SessionPath /\ rout.threadId # UNDEFINED) =>
                \/ PayloadNamesThread(rin) /\ rout.threadId = "7"
                \/ ResolvedTo = rentry.lastTo /\ rout.threadId = rentry.lastThreadId
        /\ ~SessionPath => rout.threadId = rin.origin.threadId

\* the entry's thread belongs to "a"; the message goes to the origin's "A" on
\* the entry's channel, and the thread is dropped
C3_Witness ==
    /\ rpc = "done"
    /\ SessionPath
    /\ rentry.lastThreadId = "t9"
    /\ rentry.lastTo = <<"a">>
    /\ rentry.lastChannel = rout.channel
    /\ ResolvedTo = <<"A">>
    /\ rout.to = <<"a">>
    /\ rout.threadId = UNDEFINED

\* the case of the origin short-circuit, stated on the arguments
OriginCase(in) ==
    /\ in.deliveryMode \in {UNDEFINED, "origin"}
    /\ in.origin.present
    /\ in.origin.channel # UNDEFINED
    /\ in.origin.to # NoText /\ in.origin.to # <<>>
    /\ in.payload.channel \in {UNDEFINED, "last"}
    /\ (in.payload.to = NoText \/ \A i \in 1..Len(in.payload.to) : in.payload.to[i] = " ")

\* C6: in the origin case the result is the origin's channel, the origin's
\* to as normalized for that channel, the origin's accountId and threadId and
\* mode explicit, and neither the session store nor the channel selection nor
\* the bindings are consulted.
C6_OriginShortCircuit ==
    (rpc # "idle" /\ OriginCase(rin)) =>
        /\ rpc = "done"
        /\ rout.channel = rin.origin.channel
        /\ rout.accountId = rin.origin.accountId
        /\ rout.threadId = rin.origin.threadId
        /\ rout.mode = "explicit"
        /\ LET n == resolveOutboundTarget(rin.origin.channel, rin.origin.to,
                                          rin.origin.accountId, "explicit")
           IN  /\ rout.to = (IF n.ok THEN n.to ELSE NoText)
               /\ rout.error = (IF n.ok THEN NoError ELSE n.error)
        /\ rreads = NoReads
        /\ rentry = NoEntry

\* an origin on telegram with a session that last talked on feishu
C6_Witness ==
    /\ rpc = "done"
    /\ rin.deliveryMode = UNDEFINED
    /\ rin.origin.channel = "telegram"
    /\ rin.origin.to = <<"A">>
    /\ rin.origin.threadId = "tO"
    /\ rin.payload.channel = "last"
    /\ rin.payload.to = <<" ">>
    /\ store[MainSessionKey].lastChannel = "feishu"
    /\ store[MainSessionKey].lastThreadId = "t9"
    /\ rout = [channel |-> "telegram", to |-> <<"a">>, accountId |-> "acctO",
               threadId |-> "tO", mode |-> "explicit", error |-> NoError]

\* C10: a resolution whose recipient the normalizer rejects returns with
\* error set to the normalizer's error and to undefined; error is set in no
\* other case, so no result has both an error and a to.
C10_RejectionIsAValue ==
    rpc = "done" =>
        /\ (rout.error # NoError) <=> (Len(rnorm) > 0 /\ ~rnorm[Len(rnorm)].result.ok)
        /\ (rout.error # NoError) =>
                /\ rout.to = NoText
                /\ rout.error = rnorm[Len(rnorm)].result.error
                /\ rout.channel # UNDEFINED
        /\ Len(rnorm) <= 1

\* a topic recipient sent to discord is rejected on the session path
C10_Witness ==
    /\ rpc = "done"
    /\ SessionPath
    /\ rout.channel = "discord"
    /\ ResolvedTo = <<"b", ":topic:", "7">>
    /\ rout.error = [channel |-> "discord", to |-> <<"b", ":topic:", "7">>]
    /\ rout.to = NoText

\* a rejected origin recipient on the short-circuit
C10_WitnessOrigin ==
    /\ rpc = "done"
    /\ ~SessionPath
    /\ rin.origin.to = <<"!">>
    /\ rout.error # NoError
    /\ rout.to = NoText

\* the origin is used, stated on the arguments: mode origin (the default),
\* an origin with a channel or a to, and a payload that names neither
OriginUsed(in) ==
    /\ in.deliveryMode \in {UNDEFINED, "origin"}
    /\ in.origin.present
    /\ in.payload.channel \in {UNDEFINED, "last"}
    /\ BlankText(in.payload.to)
    /\ (in.origin.channel # UNDEFINED \/ ~BlankText(in.origin.to))

\* the requested channel: the payload's, else the used origin's, else "last"
RequestedChannel(in) ==
    IF in.payload.channel \notin {UNDEFINED, "last"} THEN in.payload.channel
    ELSE IF OriginUsed(in) /\ in.origin.channel # UNDEFINED THEN in.origin.channel
    ELSE "last"

\* neither the payload nor a used origin gives a recipient
NoExplicitTo(in) ==
    /\ BlankText(in.payload.to)
    /\ ~(OriginUsed(in) /\ ~BlankText(in.origin.to))

\* the entry's lastTo can be used: it is set, and the request is for "last"
\* or for the entry's own channel
UsableLastTo(in, entry) ==
    /\ ~BlankText(entry.lastTo)
    /\ (RequestedChannel(in) = "last" \/ RequestedChannel(in) = entry.lastChannel)

\* C11: with no recipient candidate (no explicit to, no usable origin to, no
\* usable stored lastTo) the result has to undefined and no error, the
\* normalizer is not called and the channel is concrete; so it is with an
\* empty store, no origin, no explicit to and no configured default.
C11_MissingDestination ==
    /\ (rpc = "done" /\ NoExplicitTo(rin) /\ ~UsableLastTo(rin, rentry)) =>
            /\ rout.to = NoText
            /\ rout.error = NoError
            /\ rnorm = <<>>
            /\ rout.channel \in DeliveryChannels
    /\ (/\ rpc = "done"
        /\ store = NoStore
        /\ ~rin.origin.present
        /\ BlankText(rin.payload.to)
        /\ ~selection.ok) =>
            rout.to = NoText /\ rout.error = NoError

\* empty store, no origin, a blank payload to, no configured default
C11_Witness ==
    /\ rpc = "done"
    /\ store = NoStore
    /\ ~rin.origin.present
    /\ rin.payload.channel = UNDEFINED
    /\ rin.payload.to = <<" ">>
    /\ ~selection.ok
    /\ rnorm = <<>>
    /\ rout = [channel |-> DEFAULT_CHAT_CHANNEL, to |-> NoText, accountId |-> UNDEFINED,
               threadId |-> UNDEFINED, mode |-> "implicit", error |-> NoError]

\* C12: when the preliminary resolution yields no channel, the result's
\* channel is the first available of: the used origin's channel, the channel
\* the channel selection returns, the entry's lastChannel, the default
\* channel constant.
C12_FallbackChainOrder ==
    (rpc = "done" /\ SessionPath /\ preliminaryOf(rin, rentry).channel = UNDEFINED) =>
        rout.channel =
            IF OriginUsed(rin) /\ rin.origin.channel # UNDEFINED THEN rin.origin.channel
            ELSE IF selection.ok /\ selection.channel # UNDEFINED THEN selection.channel
            ELSE IF rentry.lastChannel # UNDEFINED THEN rentry.lastChannel
            ELSE DEFAULT_CHAT_CHANNEL

\* no origin, no session entry, configured default "discord"
C12_Witness ==
    /\ rpc = "done"
    /\ ~rin.origin.present
    /\ store = NoStore
    /\ selection = [ok |-> TRUE, channel |-> "discord"]
    /\ rreads.selection = 1
    /\ rout.channel = "discord"

\* C13: when the channel selection throws, the resolution does not throw: it
\* returns, with the entry's lastChannel as channel if the entry has one and
\* the default channel constant otherwise.
C13_SelectionFailureAbsorbed ==
    (rreads.selection = 1 /\ ~selection.ok /\ rpc # "selecting") =>
        /\ rpc = "done"
        /\ rout.channel =
            IF rentry.lastChannel # UNDEFINED THEN rentry.lastChannel
            ELSE DEFAULT_CHAT_CHANNEL

\* the selection threw; the stored recipient goes out on the default channel
C13_Witness ==
    /\ rpc = "done"
    /\ rreads.selection = 1
    /\ ~selection.ok
    /\ rentry.present
    /\ rentry.lastTo = <<"a">>
    /\ rout.channel = DEFAULT_CHAT_CHANNEL
    /\ rout.to = <<"a">>
    /\ rout.error = NoError

\* C14: with a concrete requested channel that differs from the entry's
\* lastChannel and no explicit to, the stored lastTo is not used and to is
\* undefined; a stored lastTo goes out on a channel other than the entry's
\* lastChannel only when the requested channel is "last", which is exactly
\* when allowMismatchedLastTo is true.
C14_NoStaleRecipientAcrossChannels ==
    rpc = "done" =>
        /\ allowMismatchedLastTo(rin) <=> (RequestedChannel(rin) = "last")
        /\ (/\ SessionPath
            /\ RequestedChannel(rin) # "last"
            /\ RequestedChannel(rin) # rentry.lastChannel
            /\ NoExplicitTo(rin)) =>
                rout.to = NoText /\ rnorm = <<>>
        /\ (/\ SessionPath
            /\ NoExplicitTo(rin)
            /\ rout.to # NoText
            /\ rout.channel # rentry.lastChannel) =>
                RequestedChannel(rin) = "last"

\* the entry last talked to "a" on telegram; the payload asks for discord
C14_Witness ==
    /\ rpc = "done"
    /\ rin.payload.channel = "discord"
    /\ rin.payload.to = NoText
    /\ rentry.lastChannel = "telegram"
    /\ rentry.lastTo = <<"a">>
    /\ rout.channel = "discord"
    /\ rout.to = NoText
    /\ rout.error = NoError

\* C15: no step of a resolution, on any of its paths, changes the session
\* store, the bindings or the configuration that the channel selection reads.
C15_NoSideEffects ==
    [][store' = store /\ bindings' = bindings /\ selection' = selection]_vars

\* a resolution that went through a failed channel selection and a rejected
\* recipient has returned, and the store still holds the entry it read
C15_Witness ==
    /\ rpc = "done"
    /\ rreads.selection = 1
    /\ ~selection.ok
    /\ rout.error # NoError
    /\ rentry.present
    /\ rentry.lastTo = <<"a">>
    /\ store[MainSessionKey] = rentry
    /\ store \in Stores

\* a store in which the session lookup of every call finds the given entry
SnapshotStore(entry) == [k \in {MainSessionKey, ThreadSessionKey} |-> entry]

\* the result of a resolution that runs alone, from call to return, against
\* the snapshot
AloneResult(in, snapshot) ==
    LET st == SnapshotStore(snapshot)
        s == Started(in, st, bindings)
    IN  IF s.pc = "selecting" THEN Settled(in, s.entry, st, selection, bindings).out ELSE s.out

\* C16: every resolution reads the session store once, before it awaits the
\* channel selection, and returns the result computed from the entry it read
\* then, whatever the caller has written to the store and whatever the other
\* resolution has done in between.
C16_SnapshotConsistency ==
    \A r \in Resolutions :
        /\ calls[r].loc.reads.store <= 1
        /\ calls[r].loc.pc = "selecting" => calls[r].loc.reads.store = 1
        /\ calls[r].loc.pc = "done" =>
            calls[r].loc.out = AloneResult(calls[r].in, calls[r].loc.entry)

\* both resolutions were called for the same session with "last"; the
\* caller updated the store while r1 awaited the channel selection, r2 was
\* called after the update: each returns what its own snapshot gives
C16_Witness ==
    /\ calls["r1"].loc.pc = "done"
    /\ calls["r2"].loc.pc = "done"
    /\ calls["r1"].in = calls["r2"].in
    /\ calls["r1"].loc.reads.selection = 1
    /\ calls["r1"].calledAt = 0
    /\ calls["r1"].settledAt = 1
    /\ calls["r2"].calledAt = 1
    /\ updates = 1
    /\ calls["r1"].loc.entry = NoEntry
    /\ calls["r2"].loc.entry = store[MainSessionKey]
    /\ calls["r1"].loc.out.to = NoText
    /\ calls["r2"].loc.out.to = <<"a">>
    /\ calls["r2"].loc.out.channel = "feishu"

\* C17: the channel of every result is a concrete channel: never "last",
\* "none" or undefined.
C17_ConcreteChannel ==
    rpc = "done" =>
        /\ rout.channel \in DeliveryChannels
        /\ rout.channel \notin {"last", "none", UNDEFINED}

\* payload channel "last", no session entry at all, the selection throws
C17_Witness ==
    /\ rpc = "done"
    /\ rin.payload.channel = "last"
    /\ rin.payload.sessionKey = <<" ", "t">>
    /\ ~rentry.present
    /\ rreads.selection = 1
    /\ ~selection.ok
    /\ rout.channel = DEFAULT_CHAT_CHANNEL

\* the accountId that the session gives for the result's channel
SessionAccount == IF rentry.lastChannel = rout.channel THEN rentry.lastAccountId ELSE UNDEFINED

\* C18: on the session path an accountId that the session gives is returned
\* unchanged and the bindings are not read; when the session gives none the
\* accountId is the first bound account of the result's channel, or undefined
\* when none is bound.
C18_AccountResolution ==
    (rpc = "done" /\ SessionPath) =>
        /\ SessionAccount # UNDEFINED =>
            /\ rout.accountId = SessionAccount
            /\ rreads.bindings = 0
        /\ SessionAccount = UNDEFINED =>
            /\ rreads.bindings = 1
            /\ rout.accountId =
                IF Len(bindings[rout.channel]) > 0 THEN bindings[rout.channel][1]
                ELSE UNDEFINED

\* the session has its own account on telegram although accounts are bound
C18_Witness ==
    /\ rpc = "done"
    /\ SessionPath
    /\ rout.channel = "telegram"
    /\ rentry.lastAccountId = "acctS"
    /\ bindings["telegram"] = <<"acctB", "acctB2">>
    /\ rout.accountId = "acctS"

\* the bound account is used when the session has none
C18_WitnessBound ==
    /\ rpc = "done"
    /\ SessionPath
    /\ rout.channel = "discord"
    /\ rentry.lastChannel = "telegram"
    /\ rout.accountId = "acctB"

\* the payload's session key without its surrounding blanks
GivenSessionKey(in) ==
    IF in.payload.sessionKey = NoText THEN NoText
    ELSE SelectSeq(in.payload.sessionKey, LAMBDA ch : ch # " ")

\* C19: the entry used is the one under the trimmed payload sessionKey when
\* that key is given and in the store; otherwise it is the entry under the
\* main session key; with neither the resolution goes on with no entry.
C19_SessionLookupPreference ==
    (rpc \in {"selecting", "done"} /\ SessionPath) =>
        LET key == GivenSessionKey(rin)
            found == key \notin {NoText, <<>>} /\ key \in DOMAIN store /\ store[key].present
        IN  rentry =
                IF found THEN store[key]
                ELSE IF store[MainSessionKey].present THEN store[MainSessionKey]
                ELSE NoEntry

\* both entries exist and the thread session's is used
C19_Witness ==
    /\ rpc = "done"
    /\ rin.payload.sessionKey = <<" ", "t">>
    /\ store[ThreadSessionKey].present
    /\ store[MainSessionKey].present
    /\ store[MainSessionKey].lastChannel = "feishu"
    /\ rentry = store[ThreadSessionKey]
    /\ rout.channel = "telegram"
    /\ rout.to = <<"b">>

\* a blank key with an empty store: no entry, and still a result
C19_WitnessNoEntry ==
    /\ rpc = "done"
    /\ rin.payload.sessionKey = <<" ">>
    /\ store = NoStore
    /\ rentry = NoEntry
    /\ rout.channel \in DeliveryChannels

\* C20: payload channel "last", no explicit to, no origin in use, and an
\* entry with lastChannel C, lastTo T and lastThreadId H, T accepted by the
\* normalizer: the result is channel C, to normalize(T), threadId H.
C20_ThreadCarryOver ==
    (/\ rpc = "done"
     /\ rin.payload.channel = "last"
     /\ BlankText(rin.payload.to)
     /\ ~OriginUsed(rin)
     /\ rentry.present
     /\ rentry.lastChannel # UNDEFINED
     /\ ~BlankText(rentry.lastTo)
     /\ rentry.lastThreadId # UNDEFINED
     /\ resolveOutboundTarget(rentry.lastChannel, rentry.lastTo, rout.accountId, rout.mode).ok) =>
        /\ rout.channel = rentry.lastChannel
        /\ rout.to = resolveOutboundTarget(rentry.lastChannel, rentry.lastTo, rout.accountId,
                                           rout.mode).to
        /\ rout.threadId = rentry.lastThreadId
        /\ rout.error = NoError

\* the scenario: feishu, the stored recipient, thread t9
C20_Witness ==
    /\ rpc = "done"
    /\ rin.payload.channel = "last"
    /\ rin.payload.to = NoText
    /\ ~rin.origin.present
    /\ rentry.lastChannel = "feishu"
    /\ rentry.lastTo = <<"a">>
    /\ rentry.lastThreadId = "t9"
    /\ rout.channel = "feishu"
    /\ rout.to = <<"a">>
    /\ rout.threadId = "t9"
    /\ rout.mode = "implicit"

\* C21: the result's mode is "explicit" exactly when the recipient candidate
\* came from a non-blank payload to or from the to of an origin in use, and
\* "implicit" otherwise (the stored lastTo, or no recipient); it is the same
\* whether or not a fallback channel had to be found.
C21_ModeReflectsSource ==
    rpc = "done" =>
        rout.mode = IF NoExplicitTo(rin) THEN "implicit" ELSE "explicit"

\* a partial origin gives the recipient and the channel comes from the
\* awaited selection: the mode is explicit
C21_Witness ==
    /\ rpc = "done"
    /\ rreads.selection = 1
    /\ BlankText(rin.payload.to)
    /\ rin.origin.to = <<"A">>
    /\ rout.to = <<"a">>
    /\ rout.mode = "explicit"

\* the stored recipient is used, again after the awaited selection: implicit
C21_WitnessImplicit ==
    /\ rpc = "done"
    /\ SessionPath
    /\ NoExplicitTo(rin)
    /\ rout.to = rentry.lastTo
    /\ rout.to # NoText
    /\ rout.mode = "implicit"

\* the entry in use was found under the payload's session key
ThreadSessionFound ==
    LET key == GivenSessionKey(rin)
    IN  /\ key \notin {NoText, <<>>}
        /\ key \in DOMAIN store
        /\ store[key].present
        /\ rentry = store[key]

SessionThreadId ==
    IF /\ rentry.lastThreadId # UNDEFINED
       /\ rout.channel = rentry.lastChannel
       /\ ResolvedTo # NoText
       /\ ResolvedTo = rentry.lastTo
    THEN rentry.lastThreadId
    ELSE UNDEFINED

\* C26: outside the short-circuit a partial origin's accountId and threadId do
\* not override the resolved ones: the accountId is the session's, else the
\* first bound account, and the threadId is the session's; the origin's
\* values are not in the result.
C26_PartialOriginNoOverride ==
    (rpc = "done" /\ SessionPath /\ OriginUsed(rin)) =>
        /\ rout.accountId =
            IF SessionAccount # UNDEFINED THEN SessionAccount
            ELSE IF Len(bindings[rout.channel]) > 0 THEN bindings[rout.channel][1]
            ELSE UNDEFINED
        /\ rout.threadId = SessionThreadId
        /\ rin.origin.accountId # UNDEFINED => rout.accountId # rin.origin.accountId
        /\ rin.origin.threadId # UNDEFINED => rout.threadId # rin.origin.threadId

\* an origin with a channel, an account and a thread but no recipient: the
\* session's account and thread are returned
C26_Witness ==
    /\ rpc = "done"
    /\ SessionPath
    /\ OriginUsed(rin)
    /\ rin.origin.channel = "telegram"
    /\ rin.origin.to = NoText
    /\ rin.origin.accountId = "acctO"
    /\ rin.origin.threadId = "tO"
    /\ rentry.lastChannel = "telegram"
    /\ rout.channel = "telegram"
    /\ rout.accountId = rentry.lastAccountId
    /\ rout.accountId # UNDEFINED
    /\ rout.threadId = rentry.lastThreadId
    /\ rout.threadId # UNDEFINED

\* the result of the resolution of the given arguments against the current
\* store, selection and bindings
ResultFor(in) ==
    LET s == Started(in, store, bindings)
    IN  IF s.pc = "selecting" THEN Settled(in, s.entry, store, selection, bindings).out
        ELSE s.out

\* C27: under deliveryMode "current" the origin has no influence: the result
\* is the one that the same call without an origin gives, so any two calls
\* that differ in the origin only return the same result.
C27_CurrentModeIgnoresOrigin ==
    (rpc = "done" /\ rin.deliveryMode = "current") =>
        rout = ResultFor([rin EXCEPT !.origin = NoOrigin])

\* a complete origin on discord is ignored; the session's target is returned
C27_Witness ==
    /\ rpc = "done"
    /\ rin.deliveryMode = "current"
    /\ rin.origin.channel = "discord"
    /\ rin.origin.to = <<"A">>
    /\ rin.origin.accountId = "acctO"
    /\ BlankText(rin.payload.to)
    /\ rin.payload.channel = UNDEFINED
    /\ rentry.lastChannel = "telegram"
    /\ rout.channel = "telegram"
    /\ rout.to = rentry.lastTo
    /\ rout.accountId # "acctO"

\* C28: an explicit payload channel (not "last") or a non-blank payload to
\* disables the origin, also under mode "origin": the result is the one of
\* the same call without an origin; with an explicit to and no explicit
\* channel the requested channel is "last"; a payload to of blanks only is
\* not explicit, so a complete origin is still routed to.
C28_ExplicitPayloadDisablesOrigin ==
    rpc = "done" =>
        /\ (rin.payload.channel \notin {UNDEFINED, "last"} \/ ~BlankText(rin.payload.to)) =>
            rout = ResultFor([rin EXCEPT !.origin = NoOrigin])
        /\ (rin.payload.channel \in {UNDEFINED, "last"} /\ ~BlankText(rin.payload.to)) =>
            requestedChannelOf(rin) = "last"
        /\ (/\ rin.payload.channel \in {UNDEFINED, "last"}
            /\ BlankText(rin.payload.to)
            /\ rin.deliveryMode \in {UNDEFINED, "origin"}
            /\ rin.origin.channel # UNDEFINED
            /\ ~BlankText(rin.origin.to)) =>
                /\ rreads.store = 0
                /\ rout.channel = rin.origin.channel

\* an explicit to with a complete origin on discord: the entry's channel is
\* used, not the origin's
C28_Witness ==
    /\ rpc = "done"
    /\ rin.deliveryMode = "origin"
    /\ rin.payload.channel = UNDEFINED
    /\ rin.payload.to = <<" ", "a">>
    /\ rin.origin.channel = "discord"
    /\ rin.origin.to = <<"A">>
    /\ rentry.lastChannel = "telegram"
    /\ rout.channel = "telegram"
    /\ rout.to = <<"a">>
    /\ rout.accountId # "acctO"

\* a payload to of blanks only with a complete origin: routed to the origin
C28_WitnessBlank ==
    /\ rpc = "done"
    /\ rin.payload.to = <<" ">>
    /\ rin.origin.channel = "discord"
    /\ rin.origin.to = <<"A">>
    /\ rreads.store = 0
    /\ rout.channel = "discord"
    /\ rout.to = <<"a">>

----------------------------------------------------------------------------
(* Properties of listChannelMessageActions *)

Elements(seq) == {seq[i] : i \in 1..Len(seq)}

\* the action names that the loaded plugins' listActions return
DeclaredActions ==
    UNION {Elements(plugins[i].listActions.list) :
            i \in {j \in 1..Len(plugins) :
                    plugins[j].listActions.declared /\ plugins[j].listActions.returns}}

\* the returned list has no repetition, and holds send, broadcast and the
\* declared actions, nothing else
ListingExact ==
    listed # NotListed =>
        /\ \A i, j \in 1..Len(listed) : i # j => listed[i] # listed[j]
        /\ {"send", "broadcast"} \subseteq Elements(listed)
        /\ Elements(listed) = {"send", "broadcast"} \cup DeclaredActions

\* C22: listChannelMessageActions returns a list without duplicates that
\* holds send and broadcast, every action that a loaded plugin's listActions
\* declares, and nothing else; a plugin without listActions adds nothing;
\* the query leaves the registry as it is.
C22_ListedActions == []ListingExact /\ [][plugins' = plugins]_vars

\* two plugins that repeat actions, of each other and of the built-in ones
C22_Witness ==
    /\ Len(plugins) = 2
    /\ plugins[1].listActions.list = <<"send", "react">>
    /\ plugins[2].listActions.list = <<"react", "react", "poll">>
    /\ listed = <<"send", "broadcast", "react", "poll">>

\* a plugin without listActions and one whose listActions returns nothing
C22_WitnessBuiltinOnly ==
    /\ Len(plugins) = 2
    /\ ~plugins[1].listActions.declared
    /\ plugins[2].listActions.declared
    /\ ~plugins[2].listActions.returns
    /\ listed = <<"send", "broadcast">>

----------------------------------------------------------------------------
(* Properties of the memory hooks *)

\* C23: rolling-memory writes memory/rolling-7d.md only on command:new and
\* session:end, smart-memory writes under memory/important/ only on
\* command:new; on any other event no memory file is created or changed,
\* and session:end never adds a file under memory/important/.
C23_HookTriggering ==
    [][/\ (rollingFile' # rollingFile \/ hlast'.wrote = "rolling-7d.md") =>
            /\ hlast'.handler = "rolling-memory"
            /\ \/ (hlast'.type = "command" /\ hlast'.action = "new")
               \/ (hlast'.type = "session" /\ hlast'.action = "end")
       /\ (importantFiles' # importantFiles \/ hlast'.wrote = "important") =>
            /\ hlast'.handler = "smart-memory"
            /\ hlast'.type = "command"
            /\ hlast'.action = "new"
       /\ (hlast'.type = "session" /\ hlast'.action = "end") =>
            importantFiles' = importantFiles]_vars

\* smart-memory has run on session:end and written nothing, after
\* rolling-memory had written its file
C23_Witness ==
    /\ hlast.handler = "smart-memory"
    /\ hlast.type = "session"
    /\ hlast.action = "end"
    /\ hlast.wrote = "nothing"
    /\ importantFiles = {}
    /\ rollingFile.exists

\* rolling-memory has run on an agent event and there is no file
C23_WitnessOtherEvent ==
    /\ hlast.handler = "rolling-memory"
    /\ hlast.type = "agent"
    /\ hlast.wrote = "nothing"
    /\ ~rollingFile.exists

\* the start of the retention window of the run that wrote the file
RollingWindowStart == rollingFile.updated - rollingDays(hookDays)

SessionInWindow(k) ==
    /\ sessions[k].updatedAt # 0
    /\ sessions[k].updatedAt >= RollingWindowStart

C24_WitnessOldMessage ==
    /\ rollingFile.exists
    /\ rollingFile.updated = 10
    /\ rollingDays(hookDays) = DEFAULT_ROLLING_DAYS
    /\ sessions["s1"].updatedAt = 9
    /\ [date |-> 1, text |-> "m1"] \in rollingFile.items

----------------------------------------------------------------------------
(* Properties of the QVeris search cache *)

KeyOfArg(arg) == cacheKeyOf(arg.query, normalizedLimitOf(arg))

\* a read of the key now would be served from the cache
Servable(key) == cache[key].present /\ ~(clock > cache[key].expiresAt)

\* a result served from the cache is a payload of a successful search for
\* the same query and the same clamped limit
ServedFromSameSearch ==
    sresult.kind = "cached" =>
        /\ sresult.payload.kind = "payload"
        /\ sresult.payload.query = sresult.arg.query
        /\ sresult.payload.limit = normalizedLimitOf(sresult.arg)
        /\ sresult.payload.limit \in 1..100

\* C30 as written: a served payload comes from a successful search for the
\* same query and clamped limit, written less than 90 seconds before the
\* read; after a failed search the next identical search is not served from
\* the cache.
C30_AsWritten ==
    /\ ServedFromSameSearch
    /\ sresult.kind = "cached" =>
        sresult.at - sresult.payload.at < DEFAULT_SEARCH_CACHE_TTL_MS
    /\ sresult.kind = "error" => ~Servable(KeyOfArg(sresult.arg))

\* every entry holds a payload of a successful search for its own key, and
\* expires 90 seconds after that search; a served payload is at most 90
\* seconds old
CacheSound ==
    /\ ServedFromSameSearch
    /\ sresult.kind = "cached" =>
        sresult.at - sresult.payload.at <= DEFAULT_SEARCH_CACHE_TTL_MS
    /\ \A k \in CacheKeys :
        cache[k].present =>
            /\ cache[k].value.kind = "payload"
            /\ cacheKeyOf(cache[k].value.query, cache[k].value.limit) = k
            /\ cache[k].expiresAt = cache[k].value.at + DEFAULT_SEARCH_CACHE_TTL_MS

\* a read that finds an entry past its expiry removes it; a failed search
\* leaves the cache as it is
CacheSteps ==
    \A x \in Executions :
        /\ (/\ scalls[x].pc = "idle"
            /\ scalls'[x].pc = "awaiting"
            /\ cache[KeyOfArg(scalls'[x].arg)].present
            /\ clock > cache[KeyOfArg(scalls'[x].arg)].expiresAt) =>
                ~cache'[KeyOfArg(scalls'[x].arg)].present
        /\ (/\ scalls[x].pc = "awaiting"
            /\ scalls'[x].pc = "idle"
            /\ sresult'.kind = "error") =>
                cache' = cache

\* C30, amended: a served payload comes from a successful search for the
\* same query and clamped limit, written at most 90 seconds before the read;
\* an entry past its expiry is never served and is removed when read; a
\* failed search writes nothing to the cache.
C30_CacheServesFreshPayloads == []CacheSound /\ [][CacheSteps]_vars

\* a search with limit 0 is served, exactly 90 seconds later, the payload of
\* the search with limit 1
C30_Witness ==
    /\ sresult.kind = "cached"
    /\ sresult.arg = SearchArg(<<"a">>, TRUE, 0)
    /\ sresult.payload.limit = 1
    /\ sresult.at - sresult.payload.at = DEFAULT_SEARCH_CACHE_TTL_MS

\* the latest search failed while an overlapping identical search had
\* succeeded: the next identical search is served from the cache
C30_WitnessOverlap ==
    /\ sresult.kind = "error"
    /\ Servable(KeyOfArg(sresult.arg))
    /\ cache[KeyOfArg(sresult.arg)].value.at = clock

====
